---- MODULE Spec2Model ----
(***************************************************************************)
(* A model of the owned DOM sink of html5ever                              *)
(* (dom_sink/src/owned_dom.rs): the arena of SquishyNodes that the tree    *)
(* builder mutates through the TreeSink operations, the finalisation       *)
(* get_result that turns the arena into an owned tree, and the serializer. *)
(*                                                                         *)
(* A Handle is the address of an arena node: here the index of the node in *)
(* Sink.nodes, with 0 for the null handle.  Vec indices are 0-based as in  *)
(* the source; At translates them to TLA+'s 1-based sequences.             *)
(***************************************************************************)
EXTENDS Integers, Sequences, FiniteSets, TLC

\* ------------------------------------------------------------------ bounds

\* The most nodes the arena may hold, the document included, plus the text
\* fragments coalesced into existing Text nodes.
MaxNodes == 4

\* The most attributes an element may carry.
MaxAttrs == 3

\* The most parse errors recorded.
MaxErrors == 2

\* The most set_quirks_mode calls recorded in the history.
MaxModes == 2

\* ------------------------------------------------------------------ inputs

Chars == {"a", "b"}
Texts == {<<c>> : c \in Chars}
ElemNames == {"span"}
CommentTexts == {<<"c">>}
AttrNames == {"href", "class"}
AttrValues == {"1", "2"}
Attribute == [name : AttrNames, value : AttrValues]
AttrLists == {<<>>} \cup {<<x>> : x \in Attribute}
               \cup {<<x, y>> : x \in Attribute, y \in Attribute}
Messages == {"e1", "e2"}
QuirksModes == {"NoQuirks", "LimitedQuirks", "Quirks"}

\* ------------------------------------------------------------ NodeEnum

Document == [kind |-> "Document"]
Doctype(name, public_id, system_id) ==
    [kind |-> "Doctype", name |-> name, public_id |-> public_id,
     system_id |-> system_id]
Text(text) == [kind |-> "Text", text |-> text]
Comment(text) == [kind |-> "Comment", text |-> text]
Element(name, attrs) == [kind |-> "Element", name |-> name, attrs |-> attrs]

\* ------------------------------------------------------------ Handle

Null == 0
is_null(h) == h = Null

\* SquishyNode::new
SquishyNode_new(node) == [node |-> node, parent |-> Null, children |-> <<>>]

\* ------------------------------------------------------------ Vec helpers

\* v[i] for a 0-based index i.
At(v, i) == v[i + 1]

\* Vec::remove(i) for a 0-based index i < len.
VecRemove(v, i) == SubSeq(v, 1, i) \o SubSeq(v, i + 2, Len(v))

\* Vec::insert(i, x) for a 0-based index i <= len.
VecInsert(v, i, x) == SubSeq(v, 1, i) \o <<x>> \o SubSeq(v, i + 1, Len(v))

\* ------------------------------------------------------------ state

VARIABLES
    nodes,        \* Sink.nodes: the arena, a sequence of SquishyNodes
    errors,       \* Sink.errors
    quirks_mode,  \* Sink.quirks_mode
    status,       \* "parsing", "panicked", "overflow" (get_result's walk
                  \* never returns) or "finished" (get_result returned)
    dom,          \* the OwnedDom returned by get_result, or NoDom
    dropped,      \* the arena nodes get_result dropped
    written,      \* the events Node::serialize gave to the Serializer
    last,         \* the operation that led to this state, with its arguments
    history       \* the TreeSink calls made so far, in order, where they
                  \* are recorded: the record makes two states with the same
                  \* arena and different pasts distinct, so it is kept only
                  \* by the specifications that start with recording on

vars == <<nodes, errors, quirks_mode, status, dom, dropped, written, last,
          history>>

\* Sink.document: the first node allocated by Sink::default.
document == 1

NoDom == [none |-> TRUE]

Handles == 1..Len(nodes)

Call(op, target, child, text, attrs) ==
    [op |-> op, target |-> target, child |-> child, text |-> text,
     attrs |-> attrs]

\* Sink::default
Init ==
    /\ nodes = <<SquishyNode_new(Document)>>
    /\ errors = <<>>
    /\ quirks_mode = "NoQuirks"
    /\ status = "parsing"
    /\ dom = NoDom
    /\ dropped = {}
    /\ written = <<>>
    /\ last = Call("default", Null, Null, <<>>, <<>>)
    /\ history = [recording |-> FALSE, calls |-> <<>>]

\* Sink::default, with the calls that follow recorded.
InitRecording ==
    /\ nodes = <<SquishyNode_new(Document)>>
    /\ errors = <<>>
    /\ quirks_mode = "NoQuirks"
    /\ status = "parsing"
    /\ dom = NoDom
    /\ dropped = {}
    /\ written = <<>>
    /\ last = Call("default", Null, Null, <<>>, <<>>)
    /\ history = [recording |-> TRUE, calls |-> <<>>]

\* The history after the call.
Recorded(call) ==
    IF history.recording
    THEN [history EXCEPT !.calls = Append(@, call)]
    ELSE history

\* ------------------------------------------------------------ free functions

\* The outcome of a function that may panic: the arena as the function left
\* it, and whether it panicked.
Ok(ns) == [nodes |-> ns, panicked |-> FALSE]
Panic(ns) == [nodes |-> ns, panicked |-> TRUE]

\* Sink::new_node: the arena with the node pushed; its handle is the new length.
new_node(ns, node) == Append(ns, SquishyNode_new(node))

\* append without its assertion.
append_unchecked(ns, new_parent, child) ==
    Ok([ns EXCEPT ![new_parent].children = Append(@, child),
                  ![child].parent = new_parent])

\* fn append(new_parent, child): push first, then the assertion.
append(ns, new_parent, child) ==
    LET pushed == [ns EXCEPT ![new_parent].children = Append(@, child)]
    IN  IF is_null(pushed[child].parent)
        THEN Ok([pushed EXCEPT ![child].parent = new_parent])
        ELSE Panic(pushed)

\* fn get_parent_and_index(child): None, Some((parent, i)) or the panic.
get_parent_and_index(ns, child) ==
    IF is_null(ns[child].parent)
    THEN [tag |-> "None"]
    ELSE LET p == ns[child].parent
             found == {i \in 0..(Len(ns[p].children) - 1) :
                          At(ns[p].children, i) = child}
         IN  IF found = {}
             THEN [tag |-> "Panic"]
             ELSE [tag |-> "Some", parent |-> p,
                   i |-> CHOOSE i \in found : \A j \in found : i <= j]

\* fn append_to_existing_text(prev, text): whether prev is a Text node (the
\* function's result), and the arena after its push_slice.
is_text(ns, h) == ns[h].node.kind = "Text"
append_to_existing_text(ns, prev, text) ==
    [ns EXCEPT ![prev].node = Text(@.text \o text)]

\* unparent failing on a node that has no parent.
unparent_strict(ns, target) ==
    LET r == get_parent_and_index(ns, target)
    IN  IF r.tag # "Some"
        THEN Panic(ns)
        ELSE Ok([ns EXCEPT ![r.parent].children = VecRemove(@, r.i),
                           ![target].parent = Null])

\* Sink::unparent
unparent(ns, target) ==
    LET r == get_parent_and_index(ns, target)
    IN  CASE r.tag = "None" -> Ok(ns)
          [] r.tag = "Panic" -> Panic(ns)
          [] OTHER ->
               Ok([ns EXCEPT ![r.parent].children = VecRemove(@, r.i),
                             ![target].parent = Null])

\* ------------------------------------------------------------ TreeSink

\* NodeOrText<Handle>
AppendNode(node) == [tag |-> "AppendNode", node |-> node]
AppendText(text) == [tag |-> "AppendText", text |-> text]

\* children.last()
last_child(ns, h) == At(ns[h].children, Len(ns[h].children) - 1)

\* Sink_append detaching a child that has a parent before it links it.
Sink_append_reparenting(ns, parent, child) ==
    IF /\ child.tag = "AppendText"
       /\ ns[parent].children # <<>>
       /\ is_text(ns, last_child(ns, parent))
    THEN Ok(append_to_existing_text(ns, last_child(ns, parent), child.text))
    ELSE IF child.tag = "AppendText"
         THEN append(new_node(ns, Text(child.text)), parent, Len(ns) + 1)
         ELSE LET u == unparent(ns, child.node)
              IN  IF u.panicked THEN u ELSE append(u.nodes, parent, child.node)

\* Sink_append without the coalescing branch: text always gets a new node.
Sink_append_no_coalesce(ns, parent, child) ==
    IF child.tag = "AppendText"
    THEN append(new_node(ns, Text(child.text)), parent, Len(ns) + 1)
    ELSE append(ns, parent, child.node)

\* TreeSink::append
Sink_append(ns, parent, child) ==
    IF /\ child.tag = "AppendText"
       /\ ns[parent].children # <<>>
       /\ is_text(ns, last_child(ns, parent))
    THEN Ok(append_to_existing_text(ns, last_child(ns, parent), child.text))
    ELSE IF child.tag = "AppendText"
         THEN append(new_node(ns, Text(child.text)), parent, Len(ns) + 1)
         ELSE append(ns, parent, child.node)

\* The tail of append_before_sibling (lines 269-274): detach a child that has
\* a parent, then link it at index i of parent.
insert_child(ns, parent, i, child) ==
    LET u == IF ~is_null(ns[child].parent) THEN unparent(ns, child) ELSE Ok(ns)
    IN  IF u.panicked
        THEN u
        ELSE LET linked == [u.nodes EXCEPT ![child].parent = parent]
             IN  IF i > Len(linked[parent].children)
                 THEN Panic(linked)
                 ELSE Ok([linked EXCEPT
                            ![parent].children = VecInsert(@, i, child)])

\* append_before_sibling looking for the Text node at index i, the sibling
\* itself, instead of at i - 1.
append_before_sibling_off_by_one(ns, sibling, child) ==
    LET r == get_parent_and_index(ns, sibling)
    IN  IF r.tag # "Some"
        THEN Panic(ns)
        ELSE IF child.tag = "AppendNode"
             THEN insert_child(ns, r.parent, r.i, child.node)
             ELSE IF is_text(ns, At(ns[r.parent].children, r.i))
                  THEN Ok(append_to_existing_text(
                              ns, At(ns[r.parent].children, r.i), child.text))
                  ELSE insert_child(new_node(ns, Text(child.text)),
                                    r.parent, r.i, Len(ns) + 1)

\* TreeSink::append_before_sibling
append_before_sibling(ns, sibling, child) ==
    LET r == get_parent_and_index(ns, sibling)
    IN  IF r.tag # "Some"
        THEN Panic(ns)
        ELSE IF child.tag = "AppendNode"
             THEN insert_child(ns, r.parent, r.i, child.node)
             ELSE IF r.i # 0 /\ is_text(ns, At(ns[r.parent].children, r.i - 1))
                  THEN Ok(append_to_existing_text(
                              ns, At(ns[r.parent].children, r.i - 1), child.text))
                  ELSE insert_child(new_node(ns, Text(child.text)),
                                    r.parent, r.i, Len(ns) + 1)

\* TreeSink::append_doctype_to_document
append_doctype_to_document(ns, name, public_id, system_id) ==
    append(new_node(ns, Doctype(name, public_id, system_id)),
           document, Len(ns) + 1)

\* retain keeping every attribute.
retain_all(existing, attrs) == attrs

\* attrs.retain(|attr| !existing.iter().any(|e| e.name == attr.name))
retain_missing(existing, attrs) ==
    SelectSeq(attrs, LAMBDA attr :
        ~\E k \in 1..Len(existing) : existing[k].name = attr.name)

\* TreeSink::add_attrs_if_missing
add_attrs_if_missing(ns, target, attrs) ==
    IF ns[target].node.kind = "Element"
    THEN Ok([ns EXCEPT ![target].node.attrs =
                           @ \o retain_missing(@, attrs)])
    ELSE Ok(ns)

\* TreeSink::remove_from_parent
remove_from_parent(ns, target) == unparent(ns, target)

\* TreeSink::reparent_children: the set of outcomes.  With node = new_parent
\* the two &mut Vec alias in Vec::append, which is undefined behaviour: the
\* length is written twice (len + n, then 0) and either store may land last.
reparent_children(ns, node, new_parent) ==
    IF node # new_parent
    THEN {Ok([ns EXCEPT ![new_parent].children = @ \o ns[node].children,
                        ![node].children = <<>>])}
    ELSE {Ok([ns EXCEPT ![node].children = <<>>]),
          Ok([ns EXCEPT ![node].children = @ \o @])}

\* ------------------------------------------------------------ actions

\* The text fragments coalesced into existing Text nodes.
RECURSIVE Coalesced(_, _)
Coalesced(ns, h) ==
    IF h = 0 THEN 0
    ELSE Coalesced(ns, h - 1)
         + (IF ns[h].node.kind = "Text" THEN Len(ns[h].node.text) - 1 ELSE 0)

\* The arena stays inside the bounds of the model: every text fragment given
\* to the sink either allocates a node or lengthens a Text node by one, and
\* both count against MaxNodes.  A list of children is longer than MaxNodes
\* only where a node is listed more than once.
Within(ns) ==
    /\ Len(ns) + Coalesced(ns, Len(ns)) <= MaxNodes
    /\ \A h \in 1..Len(ns) :
          /\ ns[h].node.kind = "Element" => Len(ns[h].node.attrs) <= MaxAttrs
          /\ Len(ns[h].children) <= MaxNodes + 1

\* One call of a TreeSink operation with outcome r.
Finish(r, call) ==
    /\ status = "parsing"
    /\ Within(r.nodes)
    /\ nodes' = r.nodes
    /\ status' = IF r.panicked THEN "panicked" ELSE "parsing"
    /\ last' = call
    /\ history' = Recorded(call)
    /\ UNCHANGED <<errors, quirks_mode, dom, dropped, written>>

\* The nodes the tree builder inserts under: the document and the elements.
Containers == {h \in Handles : nodes[h].node.kind \in {"Document", "Element"}}

ChildOf(child) == IF child.tag = "AppendNode" THEN child.node ELSE Null
TextOf(child) == IF child.tag = "AppendText" THEN child.text ELSE <<>>

op_create_element(name, attrs) ==
    Finish(Ok(new_node(nodes, Element(name, attrs))),
           Call("create_element", Len(nodes) + 1, Null, <<name>>, attrs))

op_create_comment(text) ==
    Finish(Ok(new_node(nodes, Comment(text))),
           Call("create_comment", Len(nodes) + 1, Null, text, <<>>))

op_append(parent, child) ==
    Finish(Sink_append(nodes, parent, child),
           Call("append", parent, ChildOf(child), TextOf(child), <<>>))

op_append_before_sibling(sibling, child) ==
    Finish(append_before_sibling(nodes, sibling, child),
           Call("append_before_sibling", sibling, ChildOf(child),
                TextOf(child), <<>>))

op_append_doctype_to_document(name, public_id, system_id) ==
    Finish(append_doctype_to_document(nodes, name, public_id, system_id),
           Call("append_doctype_to_document", Null, Null, name, <<>>))

op_add_attrs_if_missing(target, attrs) ==
    Finish(add_attrs_if_missing(nodes, target, attrs),
           Call("add_attrs_if_missing", target, Null, <<>>, attrs))

op_remove_from_parent(target) ==
    Finish(remove_from_parent(nodes, target),
           Call("remove_from_parent", target, Null, <<>>, <<>>))

op_reparent_children(node, new_parent) ==
    \E r \in reparent_children(nodes, node, new_parent) :
        Finish(r, Call("reparent_children", node, new_parent, <<>>, <<>>))

\* parse_error putting the message in front of the earlier ones.
op_parse_error_newest_first(msg) ==
    /\ status = "parsing"
    /\ Len(errors) < MaxErrors
    /\ errors' = <<msg>> \o errors
    /\ last' = Call("parse_error", Null, Null, <<msg>>, <<>>)
    /\ history' = Recorded(Call("parse_error", Null, Null, <<msg>>, <<>>))
    /\ UNCHANGED <<nodes, quirks_mode, status, dom, dropped, written>>

\* TreeSink::parse_error
op_parse_error(msg) ==
    /\ status = "parsing"
    /\ Len(errors) < MaxErrors
    /\ errors' = Append(errors, msg)
    /\ last' = Call("parse_error", Null, Null, <<msg>>, <<>>)
    /\ history' = Recorded(Call("parse_error", Null, Null, <<msg>>, <<>>))
    /\ UNCHANGED <<nodes, quirks_mode, status, dom, dropped, written>>

\* TreeSink::set_quirks_mode
op_set_quirks_mode(mode) ==
    /\ status = "parsing"
    /\ Len(SelectSeq(history.calls,
                     LAMBDA c : c.op = "set_quirks_mode")) < MaxModes
    /\ quirks_mode' = mode
    /\ last' = Call("set_quirks_mode", Null, Null, <<mode>>, <<>>)
    /\ history' = Recorded(Call("set_quirks_mode", Null, Null, <<mode>>, <<>>))
    /\ UNCHANGED <<nodes, errors, status, dom, dropped, written>>

\* ------------------------------------------------------------ get_result

\* fn walk(live, node) of get_result: the live set after the call.  The
\* recursion has no visited check, so on a cycle it never returns and the
\* stack overflows: a path of more than Len(ns) nodes is on a cycle.
\* walk without the recursion into the children.
walk_no_recursion(ns, live, node, depth) ==
    [live |-> live \cup {node}, overflow |-> FALSE]

RECURSIVE walk(_, _, _, _)
RECURSIVE walk_children(_, _, _, _, _)
walk(ns, live, node, depth) ==
    IF depth > Len(ns)
    THEN [live |-> live, overflow |-> TRUE]
    ELSE walk_children(ns, live \cup {node}, ns[node].children, 0, depth)

\* for &child in node.children.iter() { walk(live, child) }, from index k on.
walk_children(ns, live, children, k, depth) ==
    IF k >= Len(children)
    THEN [live |-> live, overflow |-> FALSE]
    ELSE LET r == walk(ns, live, At(children, k), depth + 1)
         IN  IF r.overflow THEN r
             ELSE walk_children(ns, r.live, children, k + 1, depth)

\* The nodes the loop over sink.nodes drops: those not in live.
dropped_nodes(ns, live) == {h \in 1..Len(ns) : h \notin live}

\* The Box<Node> that the pointer h is after the transmute: the node's own
\* storage read as a Node, its Vec<Handle> read as Vec<Box<Node>>.  A dropped
\* node's storage is gone.
RECURSIVE owned(_, _, _)
owned(ns, gone, h) ==
    IF h \in gone
    THEN [ptr |-> h, dangling |-> TRUE]
    ELSE [ptr |-> h, dangling |-> FALSE, node |-> ns[h].node,
          children |-> [k \in 1..Len(ns[h].children) |->
                           owned(ns, gone, ns[h].children[k])]]

\* ParseResult::get_result
op_get_result ==
    /\ status = "parsing"
    /\ LET w == walk(nodes, {}, document, 1)
       IN  IF w.overflow
           THEN /\ status' = "overflow"
                /\ UNCHANGED <<dom, dropped>>
           ELSE /\ status' = "finished"
                /\ dropped' = dropped_nodes(nodes, w.live)
                /\ dom' = [document |-> owned(nodes, dropped_nodes(nodes, w.live),
                                              document),
                           errors |-> errors,
                           quirks_mode |-> quirks_mode]
    /\ last' = Call("get_result", Null, Null, <<>>, <<>>)
    /\ UNCHANGED <<nodes, errors, quirks_mode, written, history>>

\* ------------------------------------------------------------ serialize

TraversalScopes == {"IncludeNode", "ChildrenOnly"}

\* The calls Node::serialize makes on the Serializer.  start_elem is given
\* the attributes as (name, value) pairs.
start_elem(name, attrs) ==
    [ev |-> "start_elem", name |-> name,
     attrs |-> [k \in 1..Len(attrs) |-> <<attrs[k].name, attrs[k].value>>]]
end_elem(name) == [ev |-> "end_elem", name |-> name]
write_doctype(name) == [ev |-> "write_doctype", name |-> name]
write_text(text) == [ev |-> "write_text", text |-> text]
write_comment(text) == [ev |-> "write_comment", text |-> text]

\* What a call of serialize did: the events it gave to the Serializer, and
\* whether it panicked.  The Serializer itself writes to memory and returns
\* no io::Error.
Emitted(events) == [events |-> events, failed |-> FALSE]
Failed(events) == [events |-> events, failed |-> TRUE]

RECURSIVE serialize(_, _)
RECURSIVE serialize_children(_, _)

\* serialize emitting the tags of an element whatever the traversal scope.
serialize_unscoped(self, traversal_scope) ==
    IF self.node.kind = "Element"
    THEN LET kids == serialize_children(self.children, 0)
         IN  IF kids.failed
             THEN Failed(<<start_elem(self.node.name, self.node.attrs)>>
                         \o kids.events)
             ELSE Emitted(<<start_elem(self.node.name, self.node.attrs)>>
                          \o kids.events \o <<end_elem(self.node.name)>>)
    ELSE IF traversal_scope = "ChildrenOnly"
         THEN IF self.node.kind = "Document"
              THEN serialize_children(self.children, 0)
              ELSE Emitted(<<>>)
         ELSE IF self.node.kind = "Doctype"
              THEN Emitted(<<write_doctype(self.node.name)>>)
              ELSE IF self.node.kind = "Text"
                   THEN Emitted(<<write_text(self.node.text)>>)
                   ELSE IF self.node.kind = "Comment"
                        THEN Emitted(<<write_comment(self.node.text)>>)
                        ELSE Failed(<<>>)

\* Node::serialize: the arms of the match, in order.
serialize(self, traversal_scope) ==
    IF self.node.kind = "Element"
    THEN LET start == IF traversal_scope = "IncludeNode"
                      THEN <<start_elem(self.node.name, self.node.attrs)>>
                      ELSE <<>>
             kids == serialize_children(self.children, 0)
         IN  IF kids.failed
             THEN Failed(start \o kids.events)
             ELSE Emitted(start \o kids.events
                          \o (IF traversal_scope = "IncludeNode"
                              THEN <<end_elem(self.node.name)>>
                              ELSE <<>>))
    ELSE IF traversal_scope = "ChildrenOnly"
         THEN IF self.node.kind = "Document"
              THEN serialize_children(self.children, 0)
              ELSE Emitted(<<>>)
         ELSE IF self.node.kind = "Doctype"
              THEN Emitted(<<write_doctype(self.node.name)>>)
              ELSE IF self.node.kind = "Text"
                   THEN Emitted(<<write_text(self.node.text)>>)
                   ELSE IF self.node.kind = "Comment"
                        THEN Emitted(<<write_comment(self.node.text)>>)
                        ELSE Failed(<<>>)

\* for child in self.children.iter() { try!(child.serialize(serializer,
\* IncludeNode)) }, from index k on.
serialize_children(children, k) ==
    IF k >= Len(children)
    THEN Emitted(<<>>)
    ELSE LET r == serialize(At(children, k), "IncludeNode")
         IN  IF r.failed
             THEN r
             ELSE LET rest == serialize_children(children, k + 1)
                  IN  [events |-> r.events \o rest.events,
                       failed |-> rest.failed]

\* The nodes of the owned tree, by the arena node each was.
RECURSIVE OwnedPtrs(_)
OwnedPtrs(tree) ==
    IF tree.dangling
    THEN {tree.ptr}
    ELSE {tree.ptr} \cup UNION {OwnedPtrs(tree.children[k]) :
                                   k \in 1..Len(tree.children)}

\* node.serialize(serializer, traversal_scope) on the node of the OwnedDom
\* that was arena node h.
op_serialize(h, traversal_scope) ==
    /\ status = "finished"
    /\ h \in OwnedPtrs(dom.document)
    /\ LET r == serialize(owned(nodes, dropped, h), traversal_scope)
       IN  /\ written' = r.events
           /\ status' = IF r.failed THEN "panicked" ELSE "serialized"
    /\ last' = Call("serialize", h, Null, <<traversal_scope>>, <<>>)
    /\ UNCHANGED <<nodes, errors, quirks_mode, dom, dropped, history>>

\* ------------------------------------------------------------ the calls made

\* The nodes reachable from h through children, h included.
RECURSIVE ReachFrom(_, _, _)
ReachFrom(ns, seen, frontier) ==
    IF frontier \subseteq seen
    THEN seen
    ELSE ReachFrom(ns, seen \cup frontier,
                   UNION {{ns[h].children[k] : k \in 1..Len(ns[h].children)} :
                              h \in frontier})
Reachable(ns, h) == ReachFrom(ns, {}, {h})

\* The nodes a caller may link under parent: any node but the document, the
\* parent itself and the nodes the parent lies under.
NodesFor(parent) ==
    {AppendNode(h) : h \in {c \in Handles \ {document} :
                               parent \notin Reachable(nodes, c)}}
TextsFor == {AppendText(t) : t \in Texts}
ChildrenFor(parent) == NodesFor(parent) \cup TextsFor

\* The tree builder's calls: it inserts under the document and under
\* elements, never links a node under itself or its own descendant, and
\* moves the children of an element to a node outside that element.
Next ==
    \/ \E name \in ElemNames : op_create_element(name, <<>>)
    \/ \E text \in CommentTexts : op_create_comment(text)
    \/ \E parent \in Containers : \E child \in ChildrenFor(parent) :
          op_append(parent, child)
    \/ \E sibling \in Handles : \E child \in ChildrenFor(sibling) :
          op_append_before_sibling(sibling, child)
    \/ op_append_doctype_to_document(<<"h">>, <<>>, <<>>)
    \/ \E target \in Handles : op_remove_from_parent(target)
    \/ \E node \in Containers :
          \E new_parent \in Containers \ Reachable(nodes, node) :
             op_reparent_children(node, new_parent)
    \/ op_get_result

Spec == Init /\ [][Next]_vars

\* Text insertion: elements, text appended and inserted before a sibling,
\* nodes linked and detached.
NextText ==
    \/ \E name \in ElemNames : op_create_element(name, <<>>)
    \/ \E parent \in Containers : \E child \in ChildrenFor(parent) :
          op_append(parent, child)
    \/ \E sibling \in Handles : \E child \in TextsFor :
          op_append_before_sibling(sibling, child)
    \/ \E target \in Handles : op_remove_from_parent(target)

SpecText == Init /\ [][NextText]_vars

\* Building and finalising a tree of elements under a doctype: nodes linked,
\* moved and detached, then get_result.
NextBuild ==
    \/ \E name \in ElemNames : op_create_element(name, <<>>)
    \/ \E parent \in Containers : \E child \in NodesFor(parent) :
          op_append(parent, child)
    \/ \E sibling \in Handles : \E child \in NodesFor(sibling) :
          op_append_before_sibling(sibling, child)
    \/ op_append_doctype_to_document(<<"h">>, <<>>, <<>>)
    \/ \E target \in Handles : op_remove_from_parent(target)
    \/ op_get_result

SpecBuild == Init /\ [][NextBuild]_vars

\* Attributes: one element and one comment under the document, and
\* add_attrs_if_missing on any of the three nodes.
NextAttrs ==
    \/ \E name \in ElemNames : \E attrs \in AttrLists :
          Len(nodes) = 1 /\ op_create_element(name, attrs)
    \/ \E text \in CommentTexts : Len(nodes) = 2 /\ op_create_comment(text)
    \/ \E child \in NodesFor(document) : op_append(document, child)
    \/ \E target \in Handles : \E attrs \in AttrLists :
          op_add_attrs_if_missing(target, attrs)

SpecAttrs == Init /\ [][NextAttrs]_vars

\* Diagnostics: parse errors and quirks modes reported while one element is
\* created and linked under the document, then get_result, with the calls
\* recorded.
NextLog ==
    \/ \E name \in ElemNames : Len(nodes) = 1 /\ op_create_element(name, <<>>)
    \/ \E child \in NodesFor(document) : op_append(document, child)
    \/ \E msg \in Messages : op_parse_error(msg)
    \/ \E mode \in QuirksModes : op_set_quirks_mode(mode)
    \/ op_get_result

SpecLog == InitRecording /\ [][NextLog]_vars

\* The attribute lists of the elements that are serialized.
SerAttrs == {<<>>, <<[name |-> "href", value |-> "1"],
                     [name |-> "class", value |-> "2"]>>}

\* Every node but the document has a parent: the tree builder links the
\* node it created before it creates the next one.
AllLinked == \A h \in Handles \ {document} : ~is_null(nodes[h].parent)

\* The nodes without a parent that a caller may link under parent.
LooseFor(parent) ==
    {c \in NodesFor(parent) : is_null(nodes[c.node].parent)}

\* Building by appends only (elements, comments, text, a doctype), then
\* get_result and one serialize call, with the calls recorded.  A created
\* node may be given children before it is linked.
NextSer ==
    \/ \E name \in ElemNames : \E attrs \in SerAttrs :
          AllLinked /\ op_create_element(name, attrs)
    \/ \E text \in CommentTexts : AllLinked /\ op_create_comment(text)
    \/ \E parent \in Containers :
          \E child \in LooseFor(parent) \cup TextsFor :
             op_append(parent, child)
    \/ op_append_doctype_to_document(<<"h">>, <<>>, <<>>)
    \/ op_get_result
    \/ \E h \in Handles : \E traversal_scope \in TraversalScopes :
          op_serialize(h, traversal_scope)

SpecSer == InitRecording /\ [][NextSer]_vars

\* Any linking a user of the sink can ask for: any node under any node, the
\* document and the nodes the parent lies under included; any node detached;
\* then get_result.
NextCycle ==
    \/ \E name \in ElemNames : op_create_element(name, <<>>)
    \/ \E parent \in Handles : \E child \in Handles :
          op_append(parent, AppendNode(child))
    \/ \E target \in Handles : op_remove_from_parent(target)
    \/ op_get_result

SpecCycle == Init /\ [][NextCycle]_vars

\* reparent_children called with the same node as source and destination,
\* among the tree builder's appends, then get_result.
NextAlias ==
    \/ \E name \in ElemNames : op_create_element(name, <<>>)
    \/ \E parent \in Containers : \E child \in NodesFor(parent) :
          op_append(parent, child)
    \/ \E node \in Containers : op_reparent_children(node, node)
    \/ op_get_result

SpecAlias == Init /\ [][NextAlias]_vars

\* ------------------------------------------------------------ properties

\* The indices at which x occurs in the sequence v.
Occurs(v, x) == {k \in 1..Len(v) : v[k] = x}

\* The sequence v without the occurrences of x.
Without(v, x) == SelectSeq(v, LAMBDA y : y # x)

\* The (parent, index) pairs of the child slots that hold h.
Slots(ns, h) ==
    {<<p, k>> \in (1..Len(ns)) \X (1..Len(ns)) :
        k <= Len(ns[p].children) /\ ns[p].children[k] = h}

\* The step is a call of op that returned.
Returned(op) == last'.op = op /\ status' = "parsing"

\* C1: in every state reached by Sink operations, every node reachable from
\* the document through children sits in exactly one child slot, its parent
\* field names the node holding that slot, only the document has a null
\* parent, and no reachable node is reachable from its own children.
C1_TreeShape ==
    status = "parsing" =>
        \A h \in Reachable(nodes, document) :
            /\ h # document =>
                  /\ Cardinality(Slots(nodes, h)) = 1
                  /\ \A sl \in Slots(nodes, h) : nodes[h].parent = sl[1]
            /\ is_null(nodes[h].parent) <=> h = document
            /\ \A k \in 1..Len(nodes[h].children) :
                  h \notin Reachable(nodes, nodes[h].children[k])

\* C2: reparent_children(source, destination) with source # destination
\* appends source's children, in order, to destination's children, sets the
\* parent of every moved child to destination and empties source.
C2_ReparentChildren ==
    [][(Returned("reparent_children") /\ last'.target # last'.child) =>
          LET source == last'.target
              destination == last'.child
          IN  /\ nodes'[destination].children =
                     nodes[destination].children \o nodes[source].children
              /\ nodes'[source].children = <<>>
              /\ \A k \in 1..Len(nodes[source].children) :
                    nodes'[nodes[source].children[k]].parent = destination
       ]_vars

\* C3: append_before_sibling(s, AppendNode(c)) where s has parent P and c
\* already has a parent: afterwards c occurs exactly once in P's children,
\* immediately before s, c's parent is P, c is gone from its old parent if
\* that was another node, and the other children of P keep their order.
C3_MoveBeforeSibling ==
    [][(/\ Returned("append_before_sibling")
        /\ last'.child # Null
        /\ ~is_null(nodes[last'.child].parent)
        /\ ~is_null(nodes[last'.target].parent)) =>
          LET s == last'.target
              c == last'.child
              P == nodes[s].parent
              old == nodes[c].parent
              after == nodes'[P].children
          IN  /\ Cardinality(Occurs(after, c)) = 1
              /\ \E k \in 1..(Len(after) - 1) : after[k] = c /\ after[k + 1] = s
              /\ nodes'[c].parent = P
              /\ Without(after, c) = Without(nodes[P].children, c)
              /\ old # P => nodes'[old].children = Without(nodes[old].children, c)
       ]_vars

\* The arena after the step is the arena before it with only the payload of
\* node h changed, to Text(text).
OnlyTextChanged(h, text) ==
    /\ Len(nodes') = Len(nodes)
    /\ nodes' = [nodes EXCEPT ![h].node = Text(text)]

\* The arena after the step is the arena before it with one more node, a
\* childless Text(text) whose parent is P, and with P's children as given.
OneTextAdded(P, text, children) ==
    /\ Len(nodes') = Len(nodes) + 1
    /\ nodes'[Len(nodes')] =
           [node |-> Text(text), parent |-> P, children |-> <<>>]
    /\ nodes'[P].children = children
    /\ nodes'[P].node = nodes[P].node /\ nodes'[P].parent = nodes[P].parent
    /\ \A h \in Handles \ {P} : nodes'[h] = nodes[h]

\* C4: append(parent, AppendText(t)) does not fail; when parent's last child
\* is a Text node, t is concatenated onto it, no node is allocated and
\* parent's children are unchanged; otherwise exactly one node Text(t) is
\* allocated and linked as parent's last child.
C4_AppendText ==
    [][(last'.op = "append" /\ last'.text # <<>>) =>
          LET parent == last'.target
              t == last'.text
              kids == nodes[parent].children
          IN  /\ status' = "parsing"
              /\ IF kids # <<>> /\ nodes[kids[Len(kids)]].node.kind = "Text"
                 THEN OnlyTextChanged(kids[Len(kids)],
                                      nodes[kids[Len(kids)]].node.text \o t)
                 ELSE OneTextAdded(parent, t, Append(kids, Len(nodes) + 1))
       ]_vars

\* "a" then "b" appended to the same parent: its one Text child "ab".
C4_Coalesced ==
    /\ status = "parsing"
    /\ last.op = "append" /\ last.text = <<"b">>
    /\ Len(nodes) = 2
    /\ nodes[last.target].children = <<2>>
    /\ nodes[2].node = Text(<<"a", "b">>)

\* C5: append_before_sibling(s, AppendText(t)) with s at index i of its
\* parent P (from 0): at i = 0 a new Text(t) becomes P's first child and
\* nothing is merged; at i > 0 with a Text node at i - 1, t is concatenated
\* onto that node and no node is allocated or inserted; at i > 0 otherwise a
\* new Text(t) with parent P is inserted at index i, immediately before s.
C5_InsertTextBefore ==
    [][(/\ last'.op = "append_before_sibling"
        /\ last'.text # <<>>
        /\ ~is_null(nodes[last'.target].parent)
        /\ Occurs(nodes[nodes[last'.target].parent].children, last'.target) # {}) =>
          LET s == last'.target
              t == last'.text
              P == nodes[s].parent
              kids == nodes[P].children
              i == (CHOOSE k \in Occurs(kids, s) :
                       \A j \in Occurs(kids, s) : k <= j) - 1
              new == Len(nodes) + 1
          IN  /\ status' = "parsing"
              /\ IF i = 0
                 THEN OneTextAdded(P, t, <<new>> \o kids)
                 ELSE IF nodes[At(kids, i - 1)].node.kind = "Text"
                      THEN OnlyTextChanged(At(kids, i - 1),
                                           nodes[At(kids, i - 1)].node.text \o t)
                      ELSE OneTextAdded(P, t,
                               SubSeq(kids, 1, i) \o <<new>>
                                   \o SubSeq(kids, i + 1, Len(kids)))
       ]_vars

\* [Text("a"), span] and "b" inserted before the span: [Text("ab"), span].
C5_MergedIntoPreceding ==
    /\ status = "parsing"
    /\ last.op = "append_before_sibling" /\ last.text = <<"b">>
    /\ Len(nodes) = 3
    /\ LET kids == nodes[nodes[last.target].parent].children
       IN  /\ Len(kids) = 2 /\ kids[2] = last.target
           /\ nodes[kids[1]].node = Text(<<"a", "b">>)
           /\ nodes[kids[2]].node.kind = "Element"

\* Every node of the owned tree has the payload of its arena node and, in the
\* same order, that node's children.
RECURSIVE Faithful(_)
Faithful(tree) ==
    /\ ~tree.dangling
    /\ tree.node = nodes[tree.ptr].node
    /\ Len(tree.children) = Len(nodes[tree.ptr].children)
    /\ \A k \in 1..Len(tree.children) :
          /\ tree.children[k].ptr = nodes[tree.ptr].children[k]
          /\ Faithful(tree.children[k])

\* C6: the owned tree get_result returns holds exactly the nodes reachable
\* from the document through children, each with its payload and its
\* children in order; a node not reachable from the document is nowhere in it.
C6_Finalization ==
    status = "finished" =>
        /\ OwnedPtrs(dom.document) = Reachable(nodes, document)
        /\ Faithful(dom.document)
        /\ \A h \in Handles \ Reachable(nodes, document) :
              h \notin OwnedPtrs(dom.document) /\ h \in dropped

\* A doctype detached from the document (it was linked when it was created)
\* is not in the owned tree, which holds an element and the element's child.
C6_DetachedLeftOut ==
    /\ status = "finished"
    /\ \E d \in Handles :
          /\ nodes[d].node.kind = "Doctype" /\ is_null(nodes[d].parent)
          /\ d \notin OwnedPtrs(dom.document) /\ d \in dropped
    /\ \E k \in 1..Len(dom.document.children) :
          dom.document.children[k].children # <<>>

\* C7: append(parent, AppendNode(child)) aborts whenever child has a parent.
C7_AppendParentedAborts ==
    [][(/\ last'.op = "append"
        /\ last'.child # Null
        /\ ~is_null(nodes[last'.child].parent)) => status' = "panicked"
       ]_vars

\* An append of a node that was linked under a parent, aborted.
C7_Aborted ==
    /\ status = "panicked"
    /\ last.op = "append" /\ last.child # Null
    /\ ~is_null(nodes[last.child].parent)

\* C8: appending a node that has a parent P2 to another parent P1 removes it
\* from P2's children; afterwards P2's children do not contain it and P1's
\* contain it exactly once.
C8_ReparentOnAppend ==
    [][(/\ last'.op = "append"
        /\ last'.child # Null
        /\ nodes[last'.child].parent \notin {Null, last'.target}) =>
          LET c == last'.child
              P1 == last'.target
              P2 == nodes[c].parent
          IN  /\ Occurs(nodes'[P2].children, c) = {}
              /\ Cardinality(Occurs(nodes'[P1].children, c)) = 1
       ]_vars

\* C8 as amended: append does not move a node.  With c under P2, append(P1, c)
\* aborts, and c keeps its parent field and its place in P2's children; only
\* after remove_from_parent(c) has detached c does append(P1, c) return, and
\* then P1's children contain c exactly once and no other node's do.
C8_AppendAfterDetach ==
    [][/\ (/\ last'.op = "append"
           /\ last'.child # Null
           /\ nodes[last'.child].parent \notin {Null, last'.target}) =>
             LET c == last'.child
                 P2 == nodes[c].parent
             IN  /\ status' = "panicked"
                 /\ nodes'[c].parent = P2
                 /\ nodes'[P2].children = nodes[P2].children
       /\ (/\ last.op = "remove_from_parent"
           /\ last'.op = "append"
           /\ last'.child # Null
           /\ last'.child = last.target) =>
             LET c == last'.child
                 P1 == last'.target
             IN  /\ status' = "parsing"
                 /\ nodes'[c].parent = P1
                 /\ Cardinality(Occurs(nodes'[P1].children, c)) = 1
                 /\ \A P \in Handles \ {P1} : Occurs(nodes'[P].children, c) = {}
       ]_vars

\* A doctype, linked under the document when it was created, appended to an
\* element after it was detached: the document no longer holds it.
C8_MovedAfterDetach ==
    /\ status = "parsing"
    /\ last.op = "append" /\ last.child # Null
    /\ nodes[last.child].node.kind = "Doctype"
    /\ last.target # document
    /\ Occurs(nodes[document].children, last.child) = {}
    /\ Cardinality(Occurs(nodes[last.target].children, last.child)) = 1

\* C9: append_doctype_to_document appends the new Doctype node as a child of
\* the document, and fails when the document already has a Doctype child.
C9_SingleDoctype ==
    [][last'.op = "append_doctype_to_document" =>
          IF \E k \in 1..Len(nodes[document].children) :
                 nodes[nodes[document].children[k]].node.kind = "Doctype"
          THEN status' = "panicked"
          ELSE /\ status' = "parsing"
               /\ nodes'[Len(nodes')].node.kind = "Doctype"
               /\ nodes'[Len(nodes')].parent = document
               /\ nodes'[document].children =
                      Append(nodes[document].children, Len(nodes'))
       ]_vars

\* The attributes of attrs whose name is on none of old, in order.
RECURSIVE NotOn(_, _)
NotOn(old, attrs) ==
    IF attrs = <<>>
    THEN <<>>
    ELSE (IF Head(attrs).name \in {old[k].name : k \in 1..Len(old)}
          THEN <<>> ELSE <<Head(attrs)>>) \o NotOn(old, Tail(attrs))

\* C10: add_attrs_if_missing(target, attrs) does not fail and changes no
\* parent or children; on an Element the attributes already present keep
\* value and position and exactly the attributes of attrs whose name is not
\* on the target are appended, in order; another node is left as it was.
C10_AddAttrsIfMissing ==
    [][last'.op = "add_attrs_if_missing" =>
          LET target == last'.target
              attrs == last'.attrs
              old == nodes[target].node.attrs
              new == nodes'[target].node.attrs
          IN  /\ status' = "parsing"
              /\ Len(nodes') = Len(nodes)
              /\ \A h \in Handles :
                    /\ nodes'[h].parent = nodes[h].parent
                    /\ nodes'[h].children = nodes[h].children
                    /\ h # target => nodes'[h] = nodes[h]
              /\ IF nodes[target].node.kind = "Element"
                 THEN /\ nodes'[target].node.kind = "Element"
                      /\ nodes'[target].node.name = nodes[target].node.name
                      /\ Len(new) >= Len(old)
                      /\ SubSeq(new, 1, Len(old)) = old
                      /\ SubSeq(new, Len(old) + 1, Len(new)) = NotOn(old, attrs)
                 ELSE nodes'[target] = nodes[target]
       ]_vars

\* element{href="1"} given [href="2", class="1"]: {href="1", class="1"}.
C10_FirstWriteWins ==
    /\ status = "parsing"
    /\ last.op = "add_attrs_if_missing"
    /\ last.attrs = <<[name |-> "href", value |-> "2"],
                      [name |-> "class", value |-> "1"]>>
    /\ nodes[last.target].node.kind = "Element"
    /\ nodes[last.target].node.attrs = <<[name |-> "href", value |-> "1"],
                                         [name |-> "class", value |-> "1"]>>
    /\ ~is_null(nodes[last.target].parent)


\* No two attributes of the list have the same name.
DistinctNames(attrs) ==
    \A i \in 1..Len(attrs) : \A j \in 1..Len(attrs) :
        attrs[i].name = attrs[j].name => i = j

\* C11: add_attrs_if_missing(target, attrs) on an Element whose attribute
\* names are pairwise distinct leaves them pairwise distinct, for every attrs
\* list, one with a repeated name that is not on the target included.
C11_UniqueAttrNames ==
    [][(/\ last'.op = "add_attrs_if_missing"
        /\ nodes[last'.target].node.kind = "Element"
        /\ DistinctNames(nodes[last'.target].node.attrs)) =>
          DistinctNames(nodes'[last'.target].node.attrs)
       ]_vars

\* C12: remove_from_parent(target) on a node whose parent is P returns; it
\* removes the one occurrence of target from P's children, keeping the order
\* of the others, and sets target's parent to null; target's payload and
\* children and every other node are unchanged.
C12_RemoveFromParent ==
    [][(/\ last'.op = "remove_from_parent"
        /\ ~is_null(nodes[last'.target].parent)) =>
          LET target == last'.target
              P == nodes[target].parent
          IN  /\ status' = "parsing"
              /\ Len(nodes') = Len(nodes)
              /\ Cardinality(Occurs(nodes[P].children, target)) = 1
              /\ nodes'[P].children = Without(nodes[P].children, target)
              /\ is_null(nodes'[target].parent)
              /\ nodes'[target].node = nodes[target].node
              /\ P # target => nodes'[target].children = nodes[target].children
              /\ nodes'[P].node = nodes[P].node
              /\ P # target => nodes'[P].parent = nodes[P].parent
              /\ \A h \in Handles \ {P, target} : nodes'[h] = nodes[h]
       ]_vars

\* C13: remove_from_parent on a node whose parent is null returns and leaves
\* every node's parent, children and payload as they were; so a second
\* remove_from_parent on the same node, right after the first, changes nothing.
C13_IdempotentDetach ==
    [][/\ (/\ last'.op = "remove_from_parent"
           /\ is_null(nodes[last'.target].parent)) =>
             (status' = "parsing" /\ nodes' = nodes)
       /\ (/\ last.op = "remove_from_parent"
           /\ last'.op = "remove_from_parent"
           /\ last'.target = last.target) =>
             (status' = "parsing" /\ nodes' = nodes)
       ]_vars

\* An element that was linked under the document, detached twice in a row:
\* the second call found it without a parent.
C13_DetachedTwice ==
    /\ status = "parsing"
    /\ last.op = "remove_from_parent"
    /\ nodes[last.target].node.kind = "Element"
    /\ is_null(nodes[last.target].parent)
    /\ nodes[last.target].children # <<>>
    /\ Slots(nodes, last.target) = {}
    /\ nodes[document].children # <<>>

\* C18: the panic of get_parent_and_index is unreachable: in every state
\* reached by Sink operations each node with a non-null parent occurs in that
\* parent's children, and remove_from_parent never aborts.
C18_PanicUnreachable ==
    /\ status = "parsing" =>
          \A h \in Handles :
              ~is_null(nodes[h].parent) =>
                  Occurs(nodes[nodes[h].parent].children, h) # {}
    /\ ~(status = "panicked" /\ last.op = "remove_from_parent")

\* C20: in every state reached by Sink operations no node has two adjacent
\* Text children.
C20_NoAdjacentText ==
    status = "parsing" =>
        \A h \in Handles :
            \A k \in 1..(Len(nodes[h].children) - 1) :
                ~(/\ nodes[nodes[h].children[k]].node.kind = "Text"
                  /\ nodes[nodes[h].children[k + 1]].node.kind = "Text")


\* The messages of the parse_error calls among calls, in call order.
RECURSIVE MessagesPassed(_)
MessagesPassed(calls) ==
    IF calls = <<>>
    THEN <<>>
    ELSE (IF Head(calls).op = "parse_error" THEN Head(calls).text ELSE <<>>)
         \o MessagesPassed(Tail(calls))

\* The mode of the last set_quirks_mode call among calls, NoQuirks without one.
RECURSIVE ModePassed(_)
ModePassed(calls) ==
    IF calls = <<>>
    THEN "NoQuirks"
    ELSE IF calls[Len(calls)].op = "set_quirks_mode"
         THEN calls[Len(calls)].text[1]
         ELSE ModePassed(SubSeq(calls, 1, Len(calls) - 1))

\* C14: parse_error and set_quirks_mode never abort and change no node; the
\* errors of the OwnedDom that get_result returns are the messages passed to
\* parse_error, in call order, and its quirks_mode is the mode of the last
\* set_quirks_mode call, NoQuirks if there was none.
C14_Bookkeeping ==
    /\ [](status = "finished" =>
             /\ dom.errors = MessagesPassed(history.calls)
             /\ dom.quirks_mode = ModePassed(history.calls))
    /\ [][last'.op \in {"parse_error", "set_quirks_mode"} =>
             (status' = "parsing" /\ nodes' = nodes)]_vars

\* Two errors and two quirks modes reported around the linking of an element,
\* and the OwnedDom that carries them.
C14_Reported ==
    /\ status = "finished"
    /\ dom.errors = <<"e2", "e1">>
    /\ dom.quirks_mode = "Quirks"
    /\ \E k \in 1..Len(history.calls) :
          /\ history.calls[k].op = "set_quirks_mode"
          /\ history.calls[k].text = <<"LimitedQuirks">>
    /\ dom.document.children # <<>>


\* The events of the children, each serialized with IncludeNode, in order.
RECURSIVE EachIncluded(_)
EachIncluded(children) ==
    IF children = <<>>
    THEN <<>>
    ELSE serialize(Head(children), "IncludeNode").events
         \o EachIncluded(Tail(children))

\* Every end_elem closes the start_elem that was opened last and is still
\* open, and none stays open: open is the stack of open element names.
RECURSIVE Nested(_, _)
Nested(events, open) ==
    IF events = <<>>
    THEN open = <<>>
    ELSE IF Head(events).ev = "start_elem"
         THEN Nested(Tail(events), <<Head(events).name>> \o open)
         ELSE IF Head(events).ev = "end_elem"
              THEN /\ open # <<>>
                   /\ Head(open) = Head(events).name
                   /\ Nested(Tail(events), Tail(open))
              ELSE Nested(Tail(events), open)

\* C15: serialize on an Element with IncludeNode emits the start tag (name,
\* attributes in stored order), each child's IncludeNode serialization in
\* order, and the end tag, properly nested; with ChildrenOnly an Element or
\* the Document emits only its children's IncludeNode serialization, and a
\* Doctype, Text or Comment emits nothing; IncludeNode on a Doctype, Text or
\* Comment emits one doctype, text or comment event, and fails on a Document.
C15_SerializerRules ==
    last.op = "serialize" =>
        LET self == owned(nodes, dropped, last.target)
            scope == last.text[1]
            kind == self.node.kind
            kids == EachIncluded(self.children)
        IN  IF kind = "Document" /\ scope = "IncludeNode"
            THEN status = "panicked"
            ELSE /\ status = "serialized"
                 /\ Nested(written, <<>>)
                 /\ kind = "Element" /\ scope = "IncludeNode" =>
                       written =
                           <<[ev |-> "start_elem", name |-> self.node.name,
                              attrs |-> [k \in 1..Len(self.node.attrs) |->
                                           <<self.node.attrs[k].name,
                                             self.node.attrs[k].value>>]]>>
                           \o kids
                           \o <<[ev |-> "end_elem", name |-> self.node.name]>>
                 /\ kind \in {"Element", "Document"} /\ scope = "ChildrenOnly" =>
                       written = kids
                 /\ kind \in {"Doctype", "Text", "Comment"} =>
                       written =
                           IF scope = "ChildrenOnly" THEN <<>>
                           ELSE IF kind = "Doctype"
                                THEN <<[ev |-> "write_doctype",
                                        name |-> self.node.name]>>
                                ELSE IF kind = "Text"
                                     THEN <<[ev |-> "write_text",
                                             text |-> self.node.text]>>
                                     ELSE <<[ev |-> "write_comment",
                                             text |-> self.node.text]>>

\* An element with two attributes and a Text child serialized with
\* IncludeNode: start tag with href before class, the text, the end tag.
C15_ElementIncluded ==
    /\ status = "serialized"
    /\ last.op = "serialize" /\ last.text = <<"IncludeNode">>
    /\ nodes[last.target].node.kind = "Element"
    /\ Len(written) = 3
    /\ written[1].ev = "start_elem"
    /\ written[1].attrs = << <<"href", "1">>, <<"class", "2">> >>
    /\ written[2].ev = "write_text"
    /\ written[3].ev = "end_elem"

\* The markup that the recorded calls put under parent, in document order:
\* for each append under parent, in call order, the doctype, the comment, the
\* element (its start tag, the markup put under it, its end tag) or the text,
\* consecutive texts forming one run.
RECURSIVE Markup(_, _)
RECURSIVE MarkupOf(_, _, _)
Markup(calls, parent) ==
    MarkupOf(calls,
             SelectSeq(calls, LAMBDA c :
                 \/ c.op = "append" /\ c.target = parent
                 \/ c.op = "append_doctype_to_document" /\ parent = document),
             <<>>)

\* The markup of the appends in items, after the text run so far.
MarkupOf(calls, items, run) ==
    LET flush == IF run = <<>> THEN <<>>
                 ELSE <<[ev |-> "write_text", text |-> run]>>
    IN  IF items = <<>>
        THEN flush
        ELSE LET c == Head(items)
             IN  IF c.op = "append" /\ c.child = Null
                 THEN MarkupOf(calls, Tail(items), run \o c.text)
                 ELSE flush
                      \o (IF c.op = "append_doctype_to_document"
                          THEN <<[ev |-> "write_doctype", name |-> c.text]>>
                          ELSE LET made == CHOOSE m \in
                                      {calls[k] : k \in 1..Len(calls)} :
                                          /\ m.op \in {"create_element",
                                                       "create_comment"}
                                          /\ m.target = c.child
                               IN  IF made.op = "create_comment"
                                   THEN <<[ev |-> "write_comment",
                                           text |-> made.text]>>
                                   ELSE <<[ev |-> "start_elem",
                                           name |-> made.text[1],
                                           attrs |-> [k \in 1..Len(made.attrs) |->
                                                        <<made.attrs[k].name,
                                                          made.attrs[k].value>>]]>>
                                        \o Markup(calls, c.child)
                                        \o <<[ev |-> "end_elem",
                                              name |-> made.text[1]]>>)
                      \o MarkupOf(calls, Tail(items), <<>>)

\* C16: for a tree built only by appends of a doctype, elements, comments and
\* text and then finalized, serialize on the document with ChildrenOnly
\* returns and emits exactly what was appended, in document order: the
\* doctype, the elements as nested start/end pairs, the comments, and each
\* run of text as one text event.
C16_RoundTrip ==
    (/\ last.op = "serialize"
     /\ last.target = document
     /\ last.text = <<"ChildrenOnly">>
     /\ \A k \in 1..Len(history.calls) :
           history.calls[k].op \in {"create_element", "create_comment",
                                    "append", "append_doctype_to_document"}) =>
        /\ status = "serialized"
        /\ written = Markup(history.calls, document)

\* An element given "a" then "b" and then linked under the document:
\* <span>ab</span>, with the text as one run.
C16_TextRunInElement ==
    /\ status = "serialized"
    /\ last.op = "serialize" /\ last.target = document
    /\ last.text = <<"ChildrenOnly">>
    /\ Len(history.calls) = 4
    /\ history.calls[4].op = "append" /\ history.calls[4].target = document
    /\ Len(written) = 3
    /\ written[1].ev = "start_elem"
    /\ written[2] = [ev |-> "write_text", text |-> <<"a", "b">>]
    /\ written[3].ev = "end_elem"


\* The number of child slots of the owned tree that hold arena node h.
RECURSIVE Owners(_, _)
RECURSIVE OwnersIn(_, _)
Owners(tree, h) == IF tree.dangling THEN 0 ELSE OwnersIn(tree.children, h)
OwnersIn(children, h) ==
    IF children = <<>>
    THEN 0
    ELSE (IF Head(children).ptr = h THEN 1 ELSE 0)
         + Owners(Head(children), h) + OwnersIn(Tail(children), h)

C19_FinalizationTerminates ==
    last.op = "get_result" => status = "finished"

====
